---- MODULE Spec2Model ----
(***************************************************************************)
(* A model of markdown-frontmatter (src/src/lib.rs): the line scanner      *)
(* LineSpan::new, the splitter split, format detection and the decode      *)
(* dispatch of parse.  Text is a sequence of one-character strings; byte   *)
(* offsets are 0-based as in the source, so the byte at offset i of s is   *)
(* s[i + 1] and the slice &s[a..b] is SubSeq(s, a + 1, b).                 *)
(***************************************************************************)
EXTENDS Integers, Sequences, FiniteSets, TLC

VARIABLES content, pc, pos, spans, result, features, target, decodeCalls, parsed, rt

vars == <<content, pc, pos, spans, result, features, target, decodeCalls, parsed, rt>>

----------------------------------------------------------------------------
(* Bounds of the model. *)

MaxPieces == 5

MaxBuf == 6

MaxParseLines == 4

MaxRoundTrip == 3

----------------------------------------------------------------------------
(* Option and slices. *)

None == <<>>

Some(x) == <<x>>

Slice(s, a, b) == SubSeq(s, a + 1, b)

SliceFrom(s, a) == SubSeq(s, a + 1, Len(s))

LF == "\n"

CR == "\r"

----------------------------------------------------------------------------
(* enum FrontmatterFormat and its delimiters. *)

FrontmatterFormat == {"Json", "Toml", "Yaml"}

VARIANTS == <<"Json", "Toml", "Yaml">>

delimiter(format) ==
    CASE format = "Json" -> << <<"{">>, <<"}">> >>
      [] format = "Toml" -> << <<"+", "+", "+">>, <<"+", "+", "+">> >>
      [] format = "Yaml" -> << <<"-", "-", "-">>, <<"-", "-", "-">> >>

RECURSIVE find_variant(_, _)
find_variant(first_line, i) ==
    IF i > Len(VARIANTS) THEN None
    ELSE IF first_line = delimiter(VARIANTS[i])[1] THEN Some(VARIANTS[i])
    ELSE find_variant(first_line, i + 1)

RECURSIVE find_prefix_variant(_, _)
find_prefix_variant(first_line, i) ==
    IF i > Len(VARIANTS) THEN None
    ELSE IF /\ Len(first_line) >= Len(delimiter(VARIANTS[i])[1])
            /\ SubSeq(first_line, 1, Len(delimiter(VARIANTS[i])[1])) = delimiter(VARIANTS[i])[1]
         THEN Some(VARIANTS[i])
    ELSE find_prefix_variant(first_line, i + 1)

detect_starts_with(first_line) == find_prefix_variant(first_line, 1)

detect(first_line) == find_variant(first_line, 1)

----------------------------------------------------------------------------
(* LineSpan::new: one call of the iterator's closure at cursor p. *)

RECURSIVE scan_line(_, _)
scan_line(bytes, i) ==
    IF i < Len(bytes) /\ bytes[i + 1] # LF /\ bytes[i + 1] # CR
    THEN scan_line(bytes, i + 1)
    ELSE i

consume_terminator_cr_takes_two(bytes, i) ==
    IF i < Len(bytes) /\ bytes[i + 1] = CR THEN i + 2
    ELSE IF i < Len(bytes) /\ bytes[i + 1] = LF THEN i + 1
    ELSE i

consume_terminator_one_byte(bytes, i) ==
    IF i < Len(bytes) /\ (bytes[i + 1] = CR \/ bytes[i + 1] = LF) THEN i + 1 ELSE i

consume_terminator_lf_cr(bytes, i) ==
    IF i < Len(bytes) /\ (bytes[i + 1] = CR \/ bytes[i + 1] = LF)
    THEN IF i + 1 < Len(bytes) /\ bytes[i + 2] # bytes[i + 1] /\ bytes[i + 2] \in {CR, LF}
         THEN i + 2 ELSE i + 1
    ELSE i

consume_terminator(bytes, i) ==
    IF i < Len(bytes) /\ bytes[i + 1] = CR
    THEN IF i + 1 < Len(bytes) /\ bytes[i + 2] = LF THEN i + 2 ELSE i + 1
    ELSE IF i < Len(bytes) /\ bytes[i + 1] = LF THEN i + 1
    ELSE i

LineSpan(s, p) ==
    IF p >= Len(s) THEN None
    ELSE LET start == p
             line_end == scan_line(s, start)
             next_start == consume_terminator(s, line_end)
         IN  Some([start |-> start, next_start |-> next_start,
                   line |-> Slice(s, start, line_end)])

----------------------------------------------------------------------------
(* str::trim_start: drop the leading White_Space characters. *)

WhiteSpace == {" ", "\t", LF, "\f", CR}

RECURSIVE trim_start_blanks(_)
trim_start_blanks(s) ==
    IF s # <<>> /\ Head(s) \in {" ", "\t"} THEN trim_start_blanks(Tail(s)) ELSE s

RECURSIVE trim_start(_)
trim_start(s) ==
    IF s # <<>> /\ Head(s) \in WhiteSpace THEN trim_start(Tail(s)) ELSE s

----------------------------------------------------------------------------
(* split: Result<(Option<SplitFrontmatter>, &str), Error>. *)

AbsentClosingDelimiter(format) == <<"AbsentClosingDelimiter", format>>

SplitFrontmatter(format, matter) == [format |-> format, matter |-> matter]

Ok(frontmatter, body) ==
    [ok |-> TRUE, err |-> None, frontmatter |-> frontmatter, body |-> Some(body)]

Err(e) == [ok |-> FALSE, err |-> Some(e), frontmatter |-> None, body |-> None]

matter_start_at_opening(format, span) == span.start

matter_start(format, span) ==
    IF format = "Json" THEN span.start ELSE span.next_start

close_block_exclusive(text, format, mstart, span) ==
    Ok(Some(SplitFrontmatter(format, Slice(text, mstart, span.start))),
       SliceFrom(text, span.next_start))

close_block_body_at_closing(text, format, mstart, span) ==
    IF format = "Json"
    THEN Ok(Some(SplitFrontmatter(format, Slice(text, mstart, span.next_start))),
            SliceFrom(text, span.start))
    ELSE Ok(Some(SplitFrontmatter(format, Slice(text, mstart, span.start))),
            SliceFrom(text, span.start))

(* A slice &text[a..b] panics unless a <= b <= text.len(). *)

SliceIndexPanic == <<"panic", "slice index">>

slice_in_range(text, a, b) == 0 <= a /\ a <= b /\ b <= Len(text)

close_block(text, format, mstart, span) ==
    IF format = "Json"
    THEN IF /\ slice_in_range(text, mstart, span.next_start)
            /\ slice_in_range(text, span.next_start, Len(text))
         THEN Ok(Some(SplitFrontmatter(format, Slice(text, mstart, span.next_start))),
                 SliceFrom(text, span.next_start))
         ELSE Err(SliceIndexPanic)
    ELSE IF /\ slice_in_range(text, mstart, span.start)
            /\ slice_in_range(text, span.next_start, Len(text))
         THEN Ok(Some(SplitFrontmatter(format, Slice(text, mstart, span.start))),
                 SliceFrom(text, span.next_start))
         ELSE Err(SliceIndexPanic)

RECURSIVE find_closing_lenient(_, _, _, _)
find_closing_lenient(text, format, mstart, p) ==
    LET nxt == LineSpan(text, p) IN
    IF nxt = None THEN Ok(None, text)
    ELSE LET span == nxt[1] IN
         IF span.line # delimiter(format)[2]
         THEN find_closing_lenient(text, format, mstart, span.next_start)
         ELSE close_block(text, format, mstart, span)

RECURSIVE find_last_closing(_, _, _, _, _)
find_last_closing(text, format, mstart, p, best) ==
    LET nxt == LineSpan(text, p) IN
    IF nxt = None
    THEN IF best = None THEN Err(AbsentClosingDelimiter(format))
         ELSE close_block(text, format, mstart, best[1])
    ELSE LET span == nxt[1] IN
         IF span.line # delimiter(format)[2]
         THEN find_last_closing(text, format, mstart, span.next_start, best)
         ELSE find_last_closing(text, format, mstart, span.next_start, Some(span))

find_closing_last(text, format, mstart, p) ==
    find_last_closing(text, format, mstart, p, None)

RECURSIVE find_closing(_, _, _, _)
find_closing(text, format, mstart, p) ==
    LET nxt == LineSpan(text, p) IN
    IF nxt = None THEN Err(AbsentClosingDelimiter(format))
    ELSE LET span == nxt[1] IN
         IF span.line # delimiter(format)[2]
         THEN find_closing(text, format, mstart, span.next_start)
         ELSE close_block(text, format, mstart, span)

split(raw) ==
    LET text == trim_start(raw)
        first == LineSpan(text, 0)
    IN  IF first = None THEN Ok(None, text)
        ELSE LET span == first[1]
                 format == detect(span.line)
             IN  IF format = None THEN Ok(None, text)
                 ELSE find_closing(text, format[1], matter_start(format[1], span),
                                   span.next_start)

----------------------------------------------------------------------------
(* Build configuration: the cargo features json, toml, yaml, of which at   *)
(* least one is enabled.                                                   *)

FeatureSets == (SUBSET FrontmatterFormat) \ {{}}

(* The target types of test_parse: EmptyFrontmatter {}, OptionalFrontmatter *)
(* { foo: Option<bool> } and RequiredFrontmatter { foo: bool }.             *)

Targets == {"Empty", "Optional", "Required"}

(* impl Default for SplitFrontmatter. *)

default_frontmatter_toml_braces(feats) ==
    IF "Json" \in feats THEN SplitFrontmatter("Json", <<"{", "}">>)
    ELSE IF "Toml" \in feats THEN SplitFrontmatter("Toml", <<"{", "}">>)
    ELSE SplitFrontmatter("Yaml", <<"{", "}">>)

default_frontmatter(feats) ==
    IF "Json" \in feats THEN SplitFrontmatter("Json", <<"{", "}">>)
    ELSE IF "Toml" \in feats THEN SplitFrontmatter("Toml", <<>>)
    ELSE SplitFrontmatter("Yaml", <<"{", "}">>)

unwrap_or_json(maybe_frontmatter, feats) ==
    IF maybe_frontmatter = None THEN SplitFrontmatter("Json", <<"{", "}">>)
    ELSE maybe_frontmatter[1]

unwrap_or_default(maybe_frontmatter, feats) ==
    IF maybe_frontmatter = None THEN default_frontmatter(feats)
    ELSE maybe_frontmatter[1]

(* The decoders serde_json, toml and serde_yaml are outside the crate: what *)
(* from_str (text -> Value) and from_value (Value -> T) answer for a text   *)
(* is any outcome, except for the empty map the default payloads denote,    *)
(* which test_parse pins down: it is well-formed, and it fits a target     *)
(* exactly when the target has no required field.                           *)

EmptyMap(format, matter_str) ==
    \/ format \in {"Json", "Yaml"} /\ matter_str = <<"{", "}">>
    \/ format = "Toml" /\ matter_str = <<>>

from_str_outcomes(format, matter_str) ==
    IF EmptyMap(format, matter_str) THEN {TRUE} ELSE BOOLEAN

from_value_outcomes(format, matter_str, T) ==
    IF EmptyMap(format, matter_str) THEN {T # "Required"} ELSE BOOLEAN

DisabledFormat(format) == <<"DisabledFormat", format>>

Invalid(format) == <<"Invalid", format>>

Deserialize(format) == <<"Deserialize", format>>

from_str_call(format, matter_str, ok) ==
    [fn |-> "from_str", format |-> format, text |-> matter_str, ok |-> ok]

from_value_call(format, matter_str, ok) ==
    [fn |-> "from_value", format |-> format, text |-> matter_str, ok |-> ok]

Value(format, matter_str) == <<"value", format, matter_str>>

(* FrontmatterFormat::parse: the outcome and the decoder calls made, given  *)
(* the decoder's answers syntax (from_str) and shape (from_value).          *)

format_parse_swapped_errors(format, matter_str, feats, syntax, shape) ==
    IF format \notin feats
    THEN [err |-> Some(DisabledFormat(format)), value |-> None, calls |-> <<>>]
    ELSE IF ~syntax
    THEN [err |-> Some(Deserialize(format)), value |-> None,
          calls |-> <<from_str_call(format, matter_str, FALSE)>>]
    ELSE IF ~shape
    THEN [err |-> Some(Invalid(format)), value |-> None,
          calls |-> <<from_str_call(format, matter_str, TRUE),
                      from_value_call(format, matter_str, FALSE)>>]
    ELSE [err |-> None, value |-> Some(Value(format, matter_str)),
          calls |-> <<from_str_call(format, matter_str, TRUE),
                      from_value_call(format, matter_str, TRUE)>>]

format_parse_ungated(format, matter_str, feats, syntax, shape) ==
    IF ~syntax
    THEN [err |-> Some(Invalid(format)), value |-> None,
          calls |-> <<from_str_call(format, matter_str, FALSE)>>]
    ELSE IF ~shape
    THEN [err |-> Some(Deserialize(format)), value |-> None,
          calls |-> <<from_str_call(format, matter_str, TRUE),
                      from_value_call(format, matter_str, FALSE)>>]
    ELSE [err |-> None, value |-> Some(Value(format, matter_str)),
          calls |-> <<from_str_call(format, matter_str, TRUE),
                      from_value_call(format, matter_str, TRUE)>>]

format_parse(format, matter_str, feats, syntax, shape) ==
    IF format \notin feats
    THEN [err |-> Some(DisabledFormat(format)), value |-> None, calls |-> <<>>]
    ELSE IF ~syntax
    THEN [err |-> Some(Invalid(format)), value |-> None,
          calls |-> <<from_str_call(format, matter_str, FALSE)>>]
    ELSE IF ~shape
    THEN [err |-> Some(Deserialize(format)), value |-> None,
          calls |-> <<from_str_call(format, matter_str, TRUE),
                      from_value_call(format, matter_str, FALSE)>>]
    ELSE [err |-> None, value |-> Some(Value(format, matter_str)),
          calls |-> <<from_str_call(format, matter_str, TRUE),
                      from_value_call(format, matter_str, TRUE)>>]

(* parse: Result<ParsedFrontmatter<T>, Error>. *)

ParsedFrontmatter(body, format, frontmatter) ==
    [ok |-> TRUE, err |-> None, body |-> Some(body), format |-> Some(format),
     frontmatter |-> Some(frontmatter)]

ParseErr(e) ==
    [ok |-> FALSE, err |-> Some(e), body |-> None, format |-> None,
     frontmatter |-> None]

parse_decoded(body, format, decoded) ==
    IF decoded.err # None THEN ParseErr(decoded.err[1])
    ELSE ParsedFrontmatter(body, format, decoded.value[1])

----------------------------------------------------------------------------
(* Inputs. *)

Pieces ==
    { <<"{">>, <<"}">>, <<"+", "+", "+">>, <<"-", "-", "-">>,
      <<"x">>, <<" ">>, <<LF>>, <<CR>> }

RECURSIVE Concat(_)
Concat(ps) == IF ps = <<>> THEN <<>> ELSE Head(ps) \o Concat(Tail(ps))

Bytes == {"-", "x", LF, CR}

Idle ==
    /\ pos = 0
    /\ spans = <<>>
    /\ result = None
    /\ features = {}
    /\ target = "Empty"
    /\ decodeCalls = <<>>
    /\ parsed = None
    /\ rt = None

----------------------------------------------------------------------------
(* The splitter applied to every document of Docs. *)

Init ==
    /\ \E k \in 0..MaxPieces : \E ps \in [1..k -> Pieces] : content = Concat(ps)
    /\ pc = "start"
    /\ Idle

Split ==
    /\ pc = "start"
    /\ result' = Some(split(content))
    /\ pc' = "done"
    /\ UNCHANGED <<content, pos, spans, features, target, decodeCalls, parsed, rt>>

Next == Split

Spec == Init /\ [][Next]_vars

----------------------------------------------------------------------------
(* The line scanner driven to exhaustion over every buffer of Bufs. *)

InitScan ==
    /\ \E k \in 0..MaxBuf : content \in [1..k -> Bytes]
    /\ pc = "scan"
    /\ Idle

ScanNext ==
    /\ pc = "scan"
    /\ LineSpan(content, pos) # None
    /\ spans' = Append(spans, LineSpan(content, pos)[1])
    /\ pos' = LineSpan(content, pos)[1].next_start
    /\ UNCHANGED <<content, pc, result, features, target, decodeCalls, parsed, rt>>

ScanEnd ==
    /\ pc = "scan"
    /\ LineSpan(content, pos) = None
    /\ pc' = "done"
    /\ UNCHANGED <<content, pos, spans, result, features, target, decodeCalls, parsed, rt>>

NextScan == ScanNext \/ ScanEnd

SpecScan == InitScan /\ [][NextScan]_vars

----------------------------------------------------------------------------
(* parse applied, under every build configuration and target type, to      *)
(* documents of up to MaxParseLines lines.                                 *)

ParseLines == { <<"{">>, <<"}">>, <<"+", "+", "+">>, <<"-", "-", "-">>, <<"x">> }

LeadingBlanks == { <<>>, <<" ", LF>> }

RECURSIVE JoinLines(_)
JoinLines(ls) ==
    IF ls = <<>> THEN <<>>
    ELSE IF Len(ls) = 1 THEN Head(ls)
    ELSE Head(ls) \o <<LF>> \o JoinLines(Tail(ls))

InitParse ==
    /\ \E k \in 0..MaxParseLines : \E ls \in [1..k -> ParseLines] :
           \E blanks \in LeadingBlanks : content = blanks \o JoinLines(ls)
    /\ pc = "start"
    /\ pos = 0
    /\ spans = <<>>
    /\ result = None
    /\ features \in FeatureSets
    /\ target \in Targets
    /\ decodeCalls = <<>>
    /\ parsed = None
    /\ rt = None

ParseSplitFails ==
    /\ pc = "start"
    /\ LET s == split(content)
       IN  /\ ~s.ok
           /\ result' = Some(s)
           /\ parsed' = Some(ParseErr(s.err[1]))
    /\ pc' = "done"
    /\ UNCHANGED <<content, pos, spans, features, target, decodeCalls, rt>>

ParseDecodes ==
    /\ pc = "start"
    /\ LET s == split(content)
           fm == unwrap_or_default(s.frontmatter, features)
       IN  /\ s.ok
           /\ \E syntax \in from_str_outcomes(fm.format, fm.matter) :
              \E shape \in from_value_outcomes(fm.format, fm.matter, target) :
                  LET decoded == format_parse(fm.format, fm.matter, features, syntax, shape)
                  IN  /\ result' = Some(s)
                      /\ decodeCalls' = decoded.calls
                      /\ parsed' = Some(parse_decoded(s.body[1], fm.format, decoded))
    /\ pc' = "done"
    /\ UNCHANGED <<content, pos, spans, features, target, rt>>

NextParse == ParseSplitFails \/ ParseDecodes

SpecParse == InitParse /\ [][NextParse]_vars

----------------------------------------------------------------------------
(* split applied to documents assembled as opening delimiter line,         *)
(* payload P, closing delimiter line, body B.                              *)

Terminators == { <<LF>>, <<CR>>, <<CR, LF>> }

InitRoundTrip ==
    /\ \E f \in FrontmatterFormat : \E term \in Terminators :
       \E k \in 0..MaxRoundTrip : \E ps \in [1..k -> Pieces] : \E j \in 0..k :
           LET P == Concat(SubSeq(ps, 1, j))
               B == Concat(SubSeq(ps, j + 1, k))
           IN  /\ rt = Some([format |-> f, term |-> term, P |-> P, B |-> B])
               /\ content = delimiter(f)[1] \o term \o P \o delimiter(f)[2] \o term \o B
    /\ pc = "start"
    /\ pos = 0
    /\ spans = <<>>
    /\ result = None
    /\ features = {}
    /\ target = "Empty"
    /\ decodeCalls = <<>>
    /\ parsed = None

SpecRoundTrip == InitRoundTrip /\ [][Next]_vars

----------------------------------------------------------------------------
(* Vocabulary of the statements below, defined from the text alone: the    *)
(* left-trimmed input, its first line, where lines start and end.          *)

OpenDelim(format) ==
    CASE format = "Json" -> <<"{">>
      [] format = "Toml" -> <<"+", "+", "+">>
      [] format = "Yaml" -> <<"-", "-", "-">>

CloseDelim(format) ==
    CASE format = "Json" -> <<"}">>
      [] format = "Toml" -> <<"+", "+", "+">>
      [] format = "Yaml" -> <<"-", "-", "-">>

Min(S) == CHOOSE m \in S : \A n \in S : m <= n

LeadingWhite(s) ==
    Min({k \in 0..Len(s) : k = Len(s) \/ s[k + 1] \notin {" ", "\t", LF, "\f", CR}})

LeftTrimmed(s) == SliceFrom(s, LeadingWhite(s))

LineEnd(t, p) == Min({k \in p..Len(t) : k = Len(t) \/ t[k + 1] \in {LF, CR}})

LineText(t, p) == Slice(t, p, LineEnd(t, p))

AfterLine(t, p) ==
    LET e == LineEnd(t, p) IN
    IF e = Len(t) THEN e
    ELSE IF t[e + 1] = CR /\ e + 1 < Len(t) /\ t[e + 2] = LF THEN e + 2
    ELSE e + 1

IsLineStart(t, p) ==
    /\ p < Len(t)
    /\ \/ p = 0
       \/ t[p] = LF
       \/ t[p] = CR /\ t[p + 1] # LF

LaterLineStarts(t) == {p \in 1..Len(t) : IsLineStart(t, p)}

ClosingLines(t, format) ==
    {p \in LaterLineStarts(t) : LineText(t, p) = CloseDelim(format)}

Trimmed == LeftTrimmed(content)

Opens(t, format) == t # <<>> /\ LineText(t, 0) = OpenDelim(format)

Done == pc = "done" /\ result # None

SplitOk(format, matter, body) ==
    result = Some([ok |-> TRUE, err |-> None,
                   frontmatter |-> Some([format |-> format, matter |-> matter]),
                   body |-> Some(body)])

----------------------------------------------------------------------------
\* C1: when the left-trimmed input is empty or its first line is not exactly
\* "{", "+++" or "---", split succeeds with no format, no frontmatter and the
\* left-trimmed input as body, byte for byte.
C1_NoDelimiterNoFrontmatter ==
    Done =>
        LET t == Trimmed IN
        (\A f \in FrontmatterFormat : ~Opens(t, f))
            => result = Some([ok |-> TRUE, err |-> None, frontmatter |-> None,
                              body |-> Some(t)])

C1_Witness ==
    /\ Done
    /\ Trimmed # content
    /\ Len(LineText(Trimmed, 0)) > 3
    /\ SubSeq(Trimmed, 1, 3) = <<"-", "-", "-">>
    /\ result[1].frontmatter = None

\* C2: a TOML or YAML block closed by a later delimiter line yields that
\* format, the frontmatter from just after the opening line's terminator up to
\* the start of the (first) closing line, and the body from just after the
\* closing line's terminator; neither delimiter line is in frontmatter or body.
C2_TomlYamlSlices ==
    Done =>
        LET t == Trimmed IN
        \A f \in {"Toml", "Yaml"} :
            LET closing == ClosingLines(t, f)
                c == Min(closing)
            IN  (Opens(t, f) /\ closing # {})
                    => SplitOk(f, Slice(t, AfterLine(t, 0), c),
                               SliceFrom(t, AfterLine(t, c)))

C2_Witness ==
    /\ Done
    /\ Opens(Trimmed, "Yaml")
    /\ result[1].ok
    /\ result[1].frontmatter[1].matter = <<"x", LF>>
    /\ result[1].body = Some(<<>>)

\* C3: a JSON block ("{" line, later "}" line) yields format Json, the
\* frontmatter from the "{" itself through the closing line's terminator, and
\* the body from exactly where the frontmatter ends.
C3_JsonSlices ==
    Done =>
        LET t == Trimmed
            closing == ClosingLines(t, "Json")
            c == Min(closing)
        IN  (Opens(t, "Json") /\ closing # {})
                => SplitOk("Json", Slice(t, 0, AfterLine(t, c)),
                           SliceFrom(t, AfterLine(t, c)))

C3_Witness ==
    /\ Done
    /\ Opens(Trimmed, "Json")
    /\ result[1].ok
    /\ result[1].frontmatter[1].matter = <<"{", LF, "}", LF>>
    /\ result[1].body = Some(<<"x">>)

\* C4: split fails exactly when the first line is an opening delimiter and no
\* later line equals that format's closing delimiter; the failure is
\* AbsentClosingDelimiter with the detected format, and nothing else is
\* returned with it.
C4_FailsIffUnclosed ==
    Done =>
        LET t == Trimmed
            Unclosed(f) == Opens(t, f) /\ ClosingLines(t, f) = {}
        IN  /\ ~result[1].ok <=> \E f \in FrontmatterFormat : Unclosed(f)
            /\ \A f \in FrontmatterFormat :
                   Unclosed(f)
                       => result = Some([ok |-> FALSE,
                                         err |-> Some(<<"AbsentClosingDelimiter", f>>),
                                         frontmatter |-> None, body |-> None])

C4_Witness ==
    /\ Done
    /\ Trimmed = <<"{">>
    /\ result[1].err = Some(<<"AbsentClosingDelimiter", "Json">>)

----------------------------------------------------------------------------
(* Round trip (SpecRoundTrip): the document is the opening delimiter line, *)
(* a payload P, the closing delimiter line and a body B, each delimiter    *)
(* line being the delimiter followed by the terminator rt.term.            *)

Block(r) == OpenDelim(r.format) \o r.term \o r.P \o CloseDelim(r.format) \o r.term

WholeLines(P) == P = <<>> \/ P[Len(P)] \in {LF, CR}

TerminatorStandsAlone(term, following) ==
    ~(term[Len(term)] = CR /\ following # <<>> /\ following[1] = LF)

HasClosingLine(P, format) ==
    \E p \in 0..(Len(P) - 1) : IsLineStart(P, p) /\ LineText(P, p) = CloseDelim(format)

WellDelimited(r) ==
    /\ WholeLines(r.P)
    /\ TerminatorStandsAlone(r.term, r.P \o CloseDelim(r.format))
    /\ TerminatorStandsAlone(r.term, r.B)

RoundTrips(r) ==
    SplitOk(r.format, IF r.format = "Json" THEN Block(r) ELSE r.P, r.B)

\* C5 (as stated): for any body B and any payload P made of whole lines,
\* splitting opening line + P + closing line + B returns body B and
\* frontmatter P (TOML, YAML) or the bracketed block (JSON).
C5_RoundTripAnyPayload ==
    (Done /\ rt # None /\ WellDelimited(rt[1])) => RoundTrips(rt[1])

\* C5 (amended): the same, for payloads of whole lines none of which equals
\* the format's closing delimiter.
C5_RoundTripNoClosingLineInPayload ==
    (Done /\ rt # None /\ WellDelimited(rt[1])
          /\ ~HasClosingLine(rt[1].P, rt[1].format))
        => RoundTrips(rt[1])

C5_Witness ==
    /\ Done
    /\ rt # None
    /\ rt[1].format = "Json"
    /\ rt[1].term = <<CR, LF>>
    /\ rt[1].P = <<"x", LF>>
    /\ rt[1].B = <<"x">>
    /\ RoundTrips(rt[1])

----------------------------------------------------------------------------
(* parse (SpecParse). *)

FirstEnabled(feats) ==
    IF "Json" \in feats THEN "Json" ELSE IF "Toml" \in feats THEN "Toml" ELSE "Yaml"

EmptyPayload(format) == IF format = "Toml" THEN <<>> ELSE <<"{", "}">>

Parsed == pc = "done" /\ parsed # None

NoFormatDetected ==
    /\ Parsed
    /\ \A f \in FrontmatterFormat : ~Opens(Trimmed, f)

ParsedOk(format, matter, body) ==
    parsed = Some([ok |-> TRUE, err |-> None, body |-> Some(body),
                   format |-> Some(format),
                   frontmatter |-> Some(<<"value", format, matter>>)])

ParsedErr(kind, format) ==
    parsed = Some([ok |-> FALSE, err |-> Some(<<kind, format>>), body |-> None,
                   format |-> None, frontmatter |-> None])

\* C6 (as stated): when split detects no format, parse succeeds for every
\* target type with format and frontmatter absent and the left-trimmed
\* document as body, and no decoder is invoked.
C6_NoFrontmatterIsAbsent ==
    NoFormatDetected
        => /\ parsed[1].ok
           /\ parsed[1].format = None
           /\ parsed[1].frontmatter = None
           /\ parsed[1].body = Some(Trimmed)
           /\ decodeCalls = <<>>

\* C6 (amended): when split detects no format, parse never reports an absent
\* format: it hands the empty payload of the first enabled format to that
\* format's decoder, and returns either that decoder's error or a success
\* carrying that format, the decoded value and the left-trimmed document.
C6_NoFrontmatterIsDefaulted ==
    NoFormatDetected
        => LET f == FirstEnabled(features) IN
           /\ decodeCalls # <<>>
           /\ decodeCalls[1].fn = "from_str"
           /\ decodeCalls[1].format = f
           /\ decodeCalls[1].text = EmptyPayload(f)
           /\ \/ ParsedOk(f, EmptyPayload(f), Trimmed)
              \/ ParsedErr("Invalid", f)
              \/ ParsedErr("Deserialize", f)

C6_Witness ==
    /\ NoFormatDetected
    /\ features = {"Toml", "Yaml"}
    /\ content = <<" ", LF, "x", LF, "-", "-", "-">>
    /\ Trimmed = <<"x", LF, "-", "-", "-">>
    /\ ParsedOk("Toml", <<>>, Trimmed)

\* C7: when split detects no frontmatter, parse decodes the empty payload of
\* the first enabled format (json, toml, yaml in that order) and reports that
\* format: success with the left-trimmed document as body when the target has
\* no required field, that format's Deserialize error when it has one.
C7_DefaultPayloadOutcome ==
    NoFormatDetected
        => LET f == FirstEnabled(features) IN
           IF target = "Required"
           THEN ParsedErr("Deserialize", f)
           ELSE ParsedOk(f, EmptyPayload(f), Trimmed)

C7_Witness ==
    /\ NoFormatDetected
    /\ features = {"Yaml"}
    /\ target = "Required"
    /\ content = <<" ", LF>>
    /\ ParsedErr("Deserialize", "Yaml")

\* C8: for a closed block of an enabled format, parse returns the format's
\* Invalid error exactly when the decoder finds the sliced text ill-formed,
\* its Deserialize error exactly when the text is well-formed but does not
\* fit the target, and otherwise the format, the decoded value and split's
\* body.
C8_DecodeFailureKinds ==
    Parsed =>
        LET t == Trimmed IN
        \A f \in features :
            LET closing == ClosingLines(t, f)
                c == Min(closing)
                matter == IF f = "Json" THEN Slice(t, 0, AfterLine(t, c))
                          ELSE Slice(t, AfterLine(t, 0), c)
            IN  (Opens(t, f) /\ closing # {})
                    => /\ decodeCalls # <<>>
                       /\ decodeCalls[1].fn = "from_str"
                       /\ decodeCalls[1].text = matter
                       /\ ParsedErr("Invalid", f) <=> ~decodeCalls[1].ok
                       /\ ParsedErr("Deserialize", f)
                              <=> /\ decodeCalls[1].ok
                                  /\ Len(decodeCalls) = 2
                                  /\ decodeCalls[2].fn = "from_value"
                                  /\ ~decodeCalls[2].ok
                       /\ \/ ParsedErr("Invalid", f)
                          \/ ParsedErr("Deserialize", f)
                          \/ /\ ParsedOk(f, matter, SliceFrom(t, AfterLine(t, c)))
                             /\ Len(decodeCalls) = 2
                             /\ decodeCalls[2].ok

C8_Witness ==
    /\ Parsed
    /\ features = {"Json", "Yaml"}
    /\ content = <<" ", LF, "-", "-", "-", LF, "x", LF, "-", "-", "-", LF, "x">>
    /\ ParsedErr("Deserialize", "Yaml")
    /\ Len(decodeCalls) = 2

\* C9: for every build configuration and every format F outside it, split
\* still detects F and slices the document as the text alone dictates, and
\* parse on a closed F block fails with DisabledFormat(F) without any decoder
\* call; an unclosed F block is still reported as F's absent closing
\* delimiter.
C9_DisabledFormat ==
    Parsed =>
        LET t == Trimmed IN
        \A f \in FrontmatterFormat \ features :
            LET closing == ClosingLines(t, f)
                c == Min(closing)
                matter == IF f = "Json" THEN Slice(t, 0, AfterLine(t, c))
                          ELSE Slice(t, AfterLine(t, 0), c)
            IN  /\ (Opens(t, f) /\ closing # {})
                       => /\ SplitOk(f, matter, SliceFrom(t, AfterLine(t, c)))
                          /\ ParsedErr("DisabledFormat", f)
                          /\ decodeCalls = <<>>
                /\ (Opens(t, f) /\ closing = {})
                       => /\ ParsedErr("AbsentClosingDelimiter", f)
                          /\ decodeCalls = <<>>

C9_Witness ==
    /\ Parsed
    /\ features = {"Json", "Yaml"}
    /\ content = <<"+", "+", "+", LF, "x", LF, "+", "+", "+", LF, "x">>
    /\ ParsedErr("DisabledFormat", "Toml")
    /\ result[1].frontmatter = Some([format |-> "Toml", matter |-> <<"x", LF>>])

----------------------------------------------------------------------------
(* Line scanner (SpecScan). *)

TextEnd(span) == span.start + Len(span.line)

\* C10: the spans satisfy start <= end of text <= next_start, the first
\* starts at 0, each starts where the previous one's next_start is, each has
\* next_start > start, and once the scanner is exhausted the last span's
\* next_start is the buffer length; an empty buffer yields no span.
C10_SpansContiguous ==
    /\ \A i \in 1..Len(spans) :
           /\ spans[i].start <= TextEnd(spans[i])
           /\ TextEnd(spans[i]) <= spans[i].next_start
           /\ spans[i].next_start > spans[i].start
           /\ spans[i].next_start <= Len(content)
           /\ spans[i].line = Slice(content, spans[i].start, TextEnd(spans[i]))
           /\ spans[i].start = IF i = 1 THEN 0 ELSE spans[i - 1].next_start
    /\ content = <<>> => spans = <<>>
    /\ (pc = "done" /\ content # <<>>)
           => /\ spans # <<>>
              /\ spans[Len(spans)].next_start = Len(content)

C10_Witness ==
    /\ pc = "done"
    /\ Len(spans) = 3
    /\ spans[1].next_start = TextEnd(spans[1]) + 2
    /\ spans[2].line = <<>>
    /\ spans[3].next_start = TextEnd(spans[3])

Terminator(span) == Slice(content, TextEnd(span), span.next_start)

\* C11: each span's text holds neither \n nor \r and is followed by exactly
\* one terminator: \r\n is consumed as one terminator, a lone \r (not followed
\* by \n) or a lone \n consumes one byte, and only a last line without
\* terminator ends at the buffer length with nothing consumed; so \n\r yields
\* two lines and \r\n yields one.
C11_OneTerminatorPerLine ==
    /\ \A i \in 1..Len(spans) :
           LET e == TextEnd(spans[i]) IN
           /\ \A k \in 1..Len(spans[i].line) : spans[i].line[k] \notin {LF, CR}
           /\ IF e = Len(content) THEN Terminator(spans[i]) = <<>>
              ELSE IF content[e + 1] = LF THEN Terminator(spans[i]) = <<LF>>
              ELSE IF e + 1 < Len(content) /\ content[e + 2] = LF
                   THEN Terminator(spans[i]) = <<CR, LF>>
              ELSE Terminator(spans[i]) = <<CR>>
    /\ (pc = "done" /\ content = <<LF, CR>>) => Len(spans) = 2
    /\ (pc = "done" /\ content = <<CR, LF>>) => Len(spans) = 1

C11_Witness ==
    /\ pc = "done"
    /\ content = <<"x", CR, LF, LF, CR, "x">>
    /\ Len(spans) = 4
    /\ Terminator(spans[1]) = <<CR, LF>>
    /\ Terminator(spans[2]) = <<LF>>
    /\ Terminator(spans[3]) = <<CR>>
    /\ Terminator(spans[4]) = <<>>

----------------------------------------------------------------------------
(* Eager close (Spec). *)

ClosingLinesIn(text, format) ==
    {p \in 0..(Len(text) - 1) :
        IsLineStart(text, p) /\ LineText(text, p) = CloseDelim(format)}

\* C12: when one or more later lines equal the closing delimiter, the first
\* ends the block: the frontmatter slice holds no line equal to the closing
\* delimiter (for JSON none but its final line), and every later such line is
\* left in the body.
C12_FirstClosingLineEndsBlock ==
    Done =>
        LET t == Trimmed IN
        \A f \in FrontmatterFormat :
            LET closing == ClosingLines(t, f) IN
            (Opens(t, f) /\ closing # {})
                => /\ result[1].ok
                   /\ result[1].frontmatter # None
                   /\ LET matter == result[1].frontmatter[1].matter
                          body == result[1].body[1]
                          inside == ClosingLinesIn(matter, f)
                      IN  /\ IF f = "Json"
                             THEN /\ Cardinality(inside) = 1
                                  /\ \A p \in inside : AfterLine(matter, p) = Len(matter)
                             ELSE inside = {}
                          /\ Cardinality(ClosingLinesIn(body, f))
                                 = Cardinality(closing) - 1

C12_Witness ==
    /\ Done
    /\ content = <<"{", LF, "}", LF, "}">>
    /\ result[1].ok
    /\ result[1].frontmatter[1].matter = <<"{", LF, "}", LF>>
    /\ result[1].body = Some(<<"}">>)

----------------------------------------------------------------------------
(* Partition of the left-trimmed input (Spec). *)

IsSuffix(b, t) == Len(b) <= Len(t) /\ b = SliceFrom(t, Len(t) - Len(b))

\* C13: when split succeeds with frontmatter, the input is frontmatter ++ body
\* for JSON, and opening line with terminator ++ frontmatter ++ closing line
\* with terminator ++ body for TOML and YAML; the slice bounds satisfy
\* 0 <= frontmatter start <= frontmatter end <= body start <= input length, no
\* slice is out of range, and the body is always a suffix of the input.
C13_SlicesPartitionInput ==
    Done =>
        LET t == Trimmed IN
        /\ result[1].err # Some(<<"panic", "slice index">>)
        /\ result[1].ok => IsSuffix(result[1].body[1], t)
        /\ (result[1].ok /\ result[1].frontmatter # None)
               => LET f == result[1].frontmatter[1].format
                      matter == result[1].frontmatter[1].matter
                      body == result[1].body[1]
                      fm_start == IF f = "Json" THEN 0 ELSE AfterLine(t, 0)
                      fm_end == fm_start + Len(matter)
                      body_start == Len(t) - Len(body)
                  IN  /\ 0 <= fm_start
                      /\ fm_start <= fm_end
                      /\ fm_end <= body_start
                      /\ body_start <= Len(t)
                      /\ matter = Slice(t, fm_start, fm_end)
                      /\ IF f = "Json"
                         THEN t = matter \o body
                         ELSE /\ LineText(t, 0) = OpenDelim(f)
                              /\ fm_end < Len(t)
                              /\ LineText(t, fm_end) = CloseDelim(f)
                              /\ body_start = AfterLine(t, fm_end)
                              /\ t = Slice(t, 0, fm_start) \o matter
                                         \o Slice(t, fm_end, body_start) \o body

C13_Witness ==
    /\ Done
    /\ content = <<"+", "+", "+", CR, "x", LF, "+", "+", "+">>
    /\ result[1].ok
    /\ result[1].frontmatter = Some([format |-> "Toml", matter |-> <<"x", LF>>])
    /\ result[1].body = Some(<<>>)

----------------------------------------------------------------------------
(* Leading whitespace (Spec). *)

WhitePrefixes ==
    { <<" ">>, <<"\t">>, <<LF>>, <<CR>>, <<" ", LF>>, <<CR, LF>>, <<LF, "\t", " ">> }

\* C14: leading whitespace never changes the outcome: for every document d
\* and every whitespace string w, split(w ++ d) returns what split(d) returns
\* (the same error, or the same format, frontmatter and body), so a delimiter
\* preceded by blank lines or indentation is still detected, and the body
\* never starts before the left-trimmed input.
C14_LeadingWhitespaceIgnored ==
    Done =>
        /\ \A w \in WhitePrefixes : split(w \o content) = result[1]
        /\ result[1].ok => Len(result[1].body[1]) <= Len(Trimmed)
        /\ \A f \in FrontmatterFormat :
               Opens(Trimmed, f)
                   => \/ result[1].err = Some(<<"AbsentClosingDelimiter", f>>)
                      \/ /\ result[1].frontmatter # None
                         /\ result[1].frontmatter[1].format = f

C14_Witness ==
    /\ Done
    /\ content = <<LF, " ", "-", "-", "-", LF, "-", "-", "-">>
    /\ result[1].frontmatter = Some([format |-> "Yaml", matter |-> <<>>])
    /\ split(<<CR, LF>> \o content) = result[1]

====
